---------------------------- MODULE Spec2Model ----------------------------
(***************************************************************************)
(* PIF-JSON-Generator: the property parser, the profile builder, the       *)
(* validator (src/src/pif_generator.py) and the batch driver               *)
(* (src/scripts/generate_all_pifs.py).                                     *)
(*                                                                         *)
(* A Python str is modelled as the sequence of its characters, so that     *)
(* strip, split, int() and the regular expressions act on characters.      *)
(* A dict is a function whose domain is its key set.                       *)
(***************************************************************************)
EXTENDS Integers, Sequences, FiniteSets, TLC

VARIABLES
    output_format,  \* self.output_format: "legacy" or "new"
    repo_type,      \* self.repo_type
    pc,             \* position of the running call
    content,        \* text handed to parse_system_prop
    lines,          \* content.splitlines()
    ln,             \* index of the next line the parser loop reads
    props,          \* the dict parse_system_prop builds / build_pif reads
    pif,            \* the profile (build_pif's result / validate_pif's argument)
    error,          \* the message of the exception raised, NoError if none
    assets,         \* main: the asset list
    idx,            \* main: number of assets taken from the list so far
    generated,      \* main: generated
    failed,         \* main: failed
    files,          \* the output directory: file name -> profile written
    listing         \* contents of generated_files.txt, NoListing if not written

vars == <<output_format, repo_type, pc, content, lines, ln, props, pif, error,
          assets, idx, generated, failed, files, listing>>

-----------------------------------------------------------------------------
(* Bounds of the model *)

MaxTextLen == 6     \* longest character-level text given to the parser
MaxPresent == 3     \* most candidate keys of one field present in a property map
MaxEdits == 2       \* most fields of a profile given to the validator that differ from a built one
MaxAssets == 2      \* longest asset list given to the batch driver

-----------------------------------------------------------------------------
(* Strings *)

Str(s) == [i \in 1..Len(s) |-> SubSeq(s, i, i)]

\* the result of a call: with S = {F(v) : v \in {a}} the argument a is evaluated
\* once, as in the code, and the body F sees its value
result(S) == CHOOSE r \in S : TRUE

Whitespace == {" ", "\t", "\n", "\r"}
LineBreaks == {"\n", "\r"}
Digits == {"0", "1", "2", "3", "4", "5", "6", "7", "8", "9"}
UpperAlnum == Digits \cup {"A", "B", "C", "D", "E", "F", "G", "H", "I", "J", "K", "L", "M",
                           "N", "O", "P", "Q", "R", "S", "T", "U", "V", "W", "X", "Y", "Z"}

\* s.strip(): s from its first to its last character that is not whitespace
strip(s) ==
    LET stripped(v) ==
            LET I == {i \in 1..Len(v) : v[i] \notin Whitespace} IN
            IF I = {} THEN << >>
            ELSE SubSeq(v, CHOOSE i \in I : \A j \in I : i <= j,
                           CHOOSE i \in I : \A j \in I : j <= i)
    IN  result({stripped(v) : v \in {s}})

\* index of the first element of s at or after position from that lies in cs; 0 if none
RECURSIVE find(_, _, _)
find(s, cs, from) ==
    IF from > Len(s) THEN 0
    ELSE IF s[from] \in cs THEN from
    ELSE find(s, cs, from + 1)

startswith(s, c) == Len(s) > 0 /\ s[1] = c

\* s.splitlines(): the lines of s without their line breaks; "\r\n" is one break,
\* and a break at the very end of s opens no further line
splitlines(s) ==
    LET \* the last character of each line break
        ends == {i \in 1..Len(s) :
                    s[i] \in LineBreaks /\ ~(s[i] = "\r" /\ i < Len(s) /\ s[i + 1] = "\n")}
        count == Cardinality(ends) + (IF Len(s) > 0 /\ Len(s) \notin ends THEN 1 ELSE 0)
        \* where line k starts: after the (k-1)-th break
        start(k) == IF k = 1 THEN 1
                    ELSE 1 + CHOOSE e \in ends : Cardinality({x \in ends : x <= e}) = k - 1
        \* where line k stops: before the first break character at or after its start
        stop(k) == LET brk == {i \in start(k)..Len(s) : s[i] \in LineBreaks} IN
                   IF brk = {} THEN Len(s) ELSE (CHOOSE i \in brk : \A j \in brk : i <= j) - 1
    IN  [k \in 1..count |-> SubSeq(s, start(k), stop(k))]

\* s.replace(old, '') : every non-overlapping occurrence of old removed, left to right
RECURSIVE remove_all(_, _)
remove_all(s, old) ==
    IF Len(s) < Len(old) \/ Len(old) = 0 THEN s
    ELSE IF SubSeq(s, 1, Len(old)) = old
         THEN remove_all(SubSeq(s, Len(old) + 1, Len(s)), old)
         ELSE <<s[1]>> \o remove_all(Tail(s), old)

-----------------------------------------------------------------------------
(* Dicts *)

EmptyDict == << >>
put(d, k, v) == [x \in (DOMAIN d) \cup {k} |-> IF x = k THEN v ELSE d[x]]
get(d, k, default) == IF k \in DOMAIN d THEN d[k] ELSE default

\* d.get(k1) or d.get(k2) or ... or last : the first truthy (non-empty) operand
RECURSIVE or_chain(_, _, _)
or_chain(d, keys, last) ==
    IF Len(keys) = 0 THEN last
    ELSE IF Head(keys) \in DOMAIN d /\ Len(d[Head(keys)]) > 0 THEN d[Head(keys)]
    ELSE or_chain(d, Tail(keys), last)

-----------------------------------------------------------------------------
(* int() and str() *)

DigitChars == <<"0", "1", "2", "3", "4", "5", "6", "7", "8", "9">>
DigitVal(c) == (CHOOSE i \in 1..10 : DigitChars[i] = c) - 1

\* the digits part of an int() literal: digits, single underscores between them
digits_ok(u) ==
    /\ Len(u) > 0
    /\ u[1] \in Digits
    /\ u[Len(u)] \in Digits
    /\ \A i \in 1..Len(u) : u[i] \in Digits \cup {"_"}
    /\ \A i \in 1..(Len(u) - 1) : ~(u[i] = "_" /\ u[i + 1] = "_")

unsigned(t) == IF Len(t) > 0 /\ t[1] \in {"+", "-"} THEN Tail(t) ELSE t

\* whether int(s) returns (otherwise it raises ValueError)
int_ok(s) == digits_ok(unsigned(strip(s)))

RECURSIVE digits_value(_, _)
digits_value(u, acc) ==
    IF Len(u) = 0 THEN acc
    ELSE IF u[1] = "_" THEN digits_value(Tail(u), acc)
    ELSE digits_value(Tail(u), 10 * acc + DigitVal(u[1]))

int(s) ==
    LET t == strip(s)
        n == digits_value(unsigned(t), 0)
    IN  IF t[1] = "-" THEN 0 - n ELSE n

RECURSIVE str_nat(_)
str_nat(n) == IF n < 10 THEN <<DigitChars[n + 1]>>
              ELSE Append(str_nat(n \div 10), DigitChars[(n % 10) + 1])

str(n) == IF n < 0 THEN <<"-">> \o str_nat(0 - n) ELSE str_nat(n)

-----------------------------------------------------------------------------
(* parse_system_prop *)

\* parse_line with the first occurrence of a key kept instead of the last
parse_line_first_wins(d, raw) ==
    LET body(line) ==
            IF find(line, {"="}, 1) # 0 /\ ~startswith(line, "#")
            THEN LET p == find(line, {"="}, 1)
                     key == SubSeq(line, 1, p - 1)
                     val == SubSeq(line, p + 1, Len(line))
                 IN  IF strip(key) \in DOMAIN d THEN d ELSE put(d, strip(key), strip(val))
            ELSE d
    IN  result({body(line) : line \in {strip(raw)}})

\* the body of the parser's loop for one line
parse_line(d, raw) ==
    LET body(line) ==
            IF find(line, {"="}, 1) # 0 /\ ~startswith(line, "#")
            THEN LET p == find(line, {"="}, 1)
                     key == SubSeq(line, 1, p - 1)
                     val == SubSeq(line, p + 1, Len(line))
                 IN  put(d, strip(key), strip(val))
            ELSE d
    IN  result({body(line) : line \in {strip(raw)}})

RECURSIVE parse_lines(_, _, _)
parse_lines(d, ls, i) ==
    IF i > Len(ls) THEN d ELSE parse_lines(parse_line(d, ls[i]), ls, i + 1)

parse_system_prop(text) == parse_lines(EmptyDict, splitlines(text), 1)

-----------------------------------------------------------------------------
(* extract_security_patch *)

\* re.search(r'\.(\d{2})(\d{2})(\d{2})\.', s): start of the leftmost match at or
\* after position from, 0 if there is none
date_match_at(s, p) ==
    /\ p + 7 <= Len(s)
    /\ s[p] = "."
    /\ \A j \in 1..6 : s[p + j] \in Digits
    /\ s[p + 7] = "."

RECURSIVE search_date(_, _)
search_date(s, from) ==
    IF from + 7 > Len(s) THEN 0
    ELSE IF date_match_at(s, from) THEN from
    ELSE search_date(s, from + 1)

\* f"20{year}-{month}-{day}" for the match that starts at p
format_date(s, p) ==
    <<"2", "0", s[p + 1], s[p + 2], "-", s[p + 3], s[p + 4], "-", s[p + 5], s[p + 6]>>

\* first index at or after from whose element is not in cs; Len(s) + 1 if none
RECURSIVE span_end(_, _, _)
span_end(s, cs, from) ==
    IF from > Len(s) THEN from
    ELSE IF s[from] \in cs THEN span_end(s, cs, from + 1)
    ELSE from

\* r'/([A-Z0-9]+\.\d{6}\.[^/]+)/' matched at position p: <<start, end>> of group 1,
\* << >> if the pattern does not match there
segment_match_at(s, p) ==
    LET q == span_end(s, UpperAlnum, p + 1)     \* the '.' after [A-Z0-9]+
        r == find(s, {"/"}, q + 8)              \* the '/' that closes [^/]+
    IN  IF /\ s[p] = "/"
           /\ q > p + 1
           /\ date_match_at(s, q)
           /\ r > q + 8
        THEN <<p + 1, r - 1>>
        ELSE << >>

RECURSIVE search_segment(_, _)
search_segment(s, from) ==
    IF from > Len(s) THEN << >>
    ELSE IF segment_match_at(s, from) # << >> THEN segment_match_at(s, from)
    ELSE search_segment(s, from + 1)

\* extract_security_patch with the fingerprint tried before the build id
extract_security_patch_fingerprint_first(fingerprint, build_id) ==
    LET m1 == search_date(build_id, 1)
        m2 == search_segment(fingerprint, 1)
        build_id_from_fp == SubSeq(fingerprint, m2[1], m2[2])
        m3 == search_date(build_id_from_fp, 1)
    IN  IF Len(fingerprint) > 0 /\ m2 # << >> /\ m3 # 0
        THEN format_date(build_id_from_fp, m3)
        ELSE IF Len(build_id) > 0 /\ m1 # 0 THEN format_date(build_id, m1)
        ELSE << >>

extract_security_patch(fingerprint, build_id) ==
    LET m1 == search_date(build_id, 1)
        m2 == search_segment(fingerprint, 1)
        build_id_from_fp == SubSeq(fingerprint, m2[1], m2[2])
        m3 == search_date(build_id_from_fp, 1)
    IN  IF Len(build_id) > 0 /\ m1 # 0 THEN format_date(build_id, m1)
        ELSE IF Len(fingerprint) > 0 /\ m2 # << >> /\ m3 # 0
             THEN format_date(build_id_from_fp, m3)
        ELSE << >>

-----------------------------------------------------------------------------
(* validate_pif *)

NoError == "none"
ErrEmpty(field) == "Field '" \o field \o "' is empty or missing"
ErrInteger(field) == field \o " must be a valid integer"
ErrPatch == "Invalid SECURITY_PATCH format"
ErrFingerprint == "No fingerprint found in system.prop"
ErrBuildId == "No build ID found in system.prop"
ErrIntLiteral == "invalid literal for int() with base 10"
ErrHttp == "HTTPError"
ErrNoProp == "system.prop not found in ZIP"
ErrNoFile == "FileNotFoundError"

required_fields(fmt) ==
    <<"MANUFACTURER", "MODEL", "FINGERPRINT", "BRAND", "PRODUCT", "DEVICE">>
        \o (IF fmt = "new" THEN <<"ID">> ELSE << >>)

\* the first required field that is empty or missing, "" if none
RECURSIVE first_empty(_, _)
first_empty(p, fields) ==
    IF Len(fields) = 0 THEN ""
    ELSE IF Len(strip(get(p, Head(fields), << >>))) = 0 THEN Head(fields)
    ELSE first_empty(p, Tail(fields))

\* sdk_rule_fails with the minimum level itself rejected
sdk_rule_fails_at_21(p, field) ==
    field \in DOMAIN p /\ (~int_ok(p[field]) \/ int(p[field]) <= 21)

\* the try block of an SDK rule: int() raises, or the value is below 21 and the
\* ValueError raised for it is caught by the same except clause
sdk_rule_fails(p, field) ==
    field \in DOMAIN p /\ (~int_ok(p[field]) \/ int(p[field]) < 21)

\* patch_rule_fails with shorter values let through
patch_rule_fails_long_only(p) ==
    LET security_patch == get(p, "SECURITY_PATCH", << >>) IN
    Len(security_patch) > 10

\* the SECURITY_PATCH rule: a non-empty value whose length is not 10
patch_rule_fails(p) ==
    LET security_patch == get(p, "SECURITY_PATCH", << >>) IN
    Len(security_patch) > 0 /\ Len(security_patch) # 10

\* validate_pif with the SECURITY_PATCH rule moved ahead of the SDK rules
validate_pif_patch_first(fmt, p) ==
    IF first_empty(p, required_fields(fmt)) # ""
        THEN ErrEmpty(first_empty(p, required_fields(fmt)))
    ELSE IF patch_rule_fails(p) THEN ErrPatch
    ELSE IF sdk_rule_fails(p, "FIRST_API_LEVEL") THEN ErrInteger("FIRST_API_LEVEL")
    ELSE IF sdk_rule_fails(p, "DEVICE_INITIAL_SDK_INT")
        THEN ErrInteger("DEVICE_INITIAL_SDK_INT")
    ELSE NoError

\* the message validate_pif raises with, NoError when it returns True
validate_pif(fmt, p) ==
    IF first_empty(p, required_fields(fmt)) # ""
        THEN ErrEmpty(first_empty(p, required_fields(fmt)))
    ELSE IF sdk_rule_fails(p, "FIRST_API_LEVEL") THEN ErrInteger("FIRST_API_LEVEL")
    ELSE IF sdk_rule_fails(p, "DEVICE_INITIAL_SDK_INT")
        THEN ErrInteger("DEVICE_INITIAL_SDK_INT")
    ELSE IF patch_rule_fails(p) THEN ErrPatch
    ELSE NoError

-----------------------------------------------------------------------------
(* build_pif: the keys each or-chain of the code reads, in the code's order *)

LegacyFingerprintKeys ==
    <<Str("ro.build.fingerprint"),
      Str("ro.product.build.fingerprint"),
      Str("ro.bootimage.build.fingerprint"),
      Str("ro.vendor.build.fingerprint"),
      Str("ro.system.build.fingerprint")>>

\* the legacy product chain cut down to its first candidate
LegacyProductKeys_first_only == <<Str("ro.build.product")>>

LegacyProductKeys ==
    <<Str("ro.build.product"),
      Str("ro.product.device"),
      Str("ro.product.name"),
      Str("ro.product.board")>>

LegacyDeviceKeys ==
    <<Str("ro.product.device"),
      Str("ro.build.product"),
      Str("ro.product.board")>>

LegacySdkKeys ==
    <<Str("ro.product.first_api_level"),
      Str("ro.board.first_api_level"),
      Str("ro.board.api_level"),
      Str("ro.build.version.sdk"),
      Str("ro.system.build.version.sdk")>>

PatchKeys ==
    <<Str("ro.build.version.security_patch"),
      Str("ro.vendor.build.security_patch")>>

\* the extended fingerprint chain with the generic key ahead of the partitions
NewFingerprintKeys_generic_first ==
    <<Str("ro.build.fingerprint"),
      Str("ro.system_ext.build.fingerprint"),
      Str("ro.system.build.fingerprint"),
      Str("ro.product.build.fingerprint"),
      Str("ro.bootimage.build.fingerprint"),
      Str("ro.vendor.build.fingerprint"),
      Str("ro.system_dlkm.build.fingerprint")>>

NewFingerprintKeys ==
    <<Str("ro.system_ext.build.fingerprint"),
      Str("ro.system.build.fingerprint"),
      Str("ro.build.fingerprint"),
      Str("ro.product.build.fingerprint"),
      Str("ro.bootimage.build.fingerprint"),
      Str("ro.vendor.build.fingerprint"),
      Str("ro.system_dlkm.build.fingerprint")>>

NewBuildIdKeys ==
    <<Str("ro.system_ext.build.id"),
      Str("ro.system.build.id"),
      Str("ro.build.id"),
      Str("ro.vendor.build.id"),
      Str("ro.system_dlkm.build.id")>>

NewProductKeys ==
    <<Str("ro.product.system_ext.name"),
      Str("ro.product.system.name"),
      Str("ro.product.name"),
      Str("ro.build.product"),
      Str("ro.product.system_ext.device"),
      Str("ro.product.device"),
      Str("ro.product.board")>>

NewDeviceKeys ==
    <<Str("ro.product.system_ext.device"),
      Str("ro.product.system.device"),
      Str("ro.product.device"),
      Str("ro.build.product"),
      Str("ro.product.board")>>

NewBrandKeys ==
    <<Str("ro.product.system_ext.brand"),
      Str("ro.product.system.brand"),
      Str("ro.product.brand")>>

NewManufacturerKeys ==
    <<Str("ro.product.system_ext.manufacturer"),
      Str("ro.product.system.manufacturer"),
      Str("ro.product.manufacturer")>>

NewModelKeys ==
    <<Str("ro.product.system_ext.model"),
      Str("ro.product.system.model"),
      Str("ro.product.model")>>

NewSdkKeys ==
    <<Str("ro.product.first_api_level"),
      Str("ro.board.first_api_level"),
      Str("ro.board.api_level"),
      Str("ro.system_ext.build.version.sdk"),
      Str("ro.system.build.version.sdk"),
      Str("ro.build.version.sdk")>>

NewTypeKeys ==
    <<Str("ro.system_ext.build.type"),
      Str("ro.system.build.type"),
      Str("ro.build.type")>>

NewTagsKeys ==
    <<Str("ro.system_ext.build.tags"),
      Str("ro.system.build.tags"),
      Str("ro.build.tags")>>

NewReleaseKeys ==
    <<Str("ro.system_ext.build.version.release"),
      Str("ro.system.build.version.release"),
      Str("ro.build.version.release"),
      Str("ro.build.version.release_or_codename")>>

NoPif == << >>
Raise(msg) == [pif |-> NoPif, error |-> msg]

\* the legacy branch of build_pif, up to and including the pif dict
build_legacy(d) ==
    LET fingerprint == strip(or_chain(d, LegacyFingerprintKeys, << >>))
        product == strip(or_chain(d, LegacyProductKeys, << >>))
        device == strip(or_chain(d, LegacyDeviceKeys, << >>))
        first_api_level == strip(or_chain(d, LegacySdkKeys, Str("0")))
    IN  IF Len(fingerprint) = 0 THEN Raise(ErrFingerprint)
        ELSE IF ~int_ok(first_api_level) THEN Raise(ErrIntLiteral)
        ELSE [pif |->
                [MANUFACTURER |-> strip(get(d, Str("ro.product.manufacturer"), Str("Google"))),
                 MODEL |-> strip(get(d, Str("ro.product.model"), Str("Unknown"))),
                 FINGERPRINT |-> fingerprint,
                 BRAND |-> strip(get(d, Str("ro.product.brand"), Str("google"))),
                 PRODUCT |-> product,
                 DEVICE |-> device,
                 SECURITY_PATCH |-> strip(or_chain(d, PatchKeys, << >>)),
                 FIRST_API_LEVEL |-> str(int(first_api_level))],
              error |-> NoError]

\* new_build_id with a placeholder default where the code has none
new_build_id_defaulted(d) == strip(or_chain(d, NewBuildIdKeys, Str("UNKNOWN")))

\* the extended branch's build id
new_build_id(d) == strip(or_chain(d, NewBuildIdKeys, << >>))

\* the extended branch of build_pif, up to and including the pif dict
build_new(d) ==
    LET fingerprint == strip(or_chain(d, NewFingerprintKeys, << >>))
        build_id == new_build_id(d)
        product == strip(or_chain(d, NewProductKeys, << >>))
        device == strip(or_chain(d, NewDeviceKeys, << >>))
        brand == strip(or_chain(d, NewBrandKeys, Str("google")))
        manufacturer == strip(or_chain(d, NewManufacturerKeys, Str("Google")))
        model == strip(or_chain(d, NewModelKeys, Str("Unknown")))
        device_initial_sdk == strip(or_chain(d, NewSdkKeys, Str("0")))
        build_type == strip(or_chain(d, NewTypeKeys, Str("user")))
        build_tags == strip(or_chain(d, NewTagsKeys, Str("release-keys")))
        release == strip(or_chain(d, NewReleaseKeys, << >>))
        direct_patch == strip(or_chain(d, PatchKeys, << >>))
        security_patch == IF Len(direct_patch) = 0
                          THEN extract_security_patch(fingerprint, build_id)
                          ELSE direct_patch
        debuggable == strip(get(d, Str("ro.debuggable"), Str("0")))
        is_debug == build_type \in {Str("userdebug"), Str("eng")} \/ debuggable = Str("1")
    IN  IF Len(fingerprint) = 0 THEN Raise(ErrFingerprint)
        ELSE IF Len(build_id) = 0 THEN Raise(ErrBuildId)
        ELSE IF ~int_ok(device_initial_sdk) THEN Raise(ErrIntLiteral)
        ELSE [pif |->
                [ID |-> build_id,
                 BRAND |-> brand,
                 DEVICE |-> device,
                 MANUFACTURER |-> manufacturer,
                 FINGERPRINT |-> fingerprint,
                 MODEL |-> model,
                 PRODUCT |-> product,
                 SECURITY_PATCH |-> security_patch,
                 DEVICE_INITIAL_SDK_INT |-> str(int(device_initial_sdk)),
                 TYPE |-> build_type,
                 TAG |-> build_tags,
                 RELEASE |-> release,
                 DEBUG |-> is_debug,
                 spoofBuild |-> Str("1"),
                 spoofProps |-> Str("0"),
                 spoofProvider |-> Str("0"),
                 spoofSignature |-> Str("0"),
                 spoofVendingSdk |-> Str("0"),
                 verboseLogs |-> Str("0")],
              error |-> NoError]

\* validated with the call of validate_pif left out
validated_unchecked(fmt, built) == built

\* the profile handed to validate_pif is returned only if validate_pif returns
validated(fmt, built) ==
    LET checked(b) ==
            IF b.error # NoError THEN b
            ELSE IF validate_pif(fmt, b.pif) # NoError THEN Raise(validate_pif(fmt, b.pif))
            ELSE b
    IN  result({checked(b) : b \in {built}})

build_pif(fmt, d) ==
    validated(fmt, IF fmt = "legacy" THEN build_legacy(d) ELSE build_new(d))

-----------------------------------------------------------------------------
(* generate and main *)

prefix(rt) == IF rt = "experimental" THEN Str("EXPERIMENTAL_") ELSE Str("Stable_PIF_")

\* f"{self.prefix}{zip_name.replace('.zip', '')}.json"
output_filename(rt, zip_name) ==
    prefix(rt) \o remove_all(zip_name, Str(".zip")) \o Str(".json")

RECURSIVE join(_, _)
join(ss, sep) ==
    IF Len(ss) = 0 THEN << >>
    ELSE IF Len(ss) = 1 THEN ss[1]
    ELSE ss[1] \o sep \o join(Tail(ss), sep)

NoListing == [written |-> FALSE, text |-> << >>]

-----------------------------------------------------------------------------
(* Inputs *)

FpSunfish == Str("google/sunfish/sunfish:11/RQ3A.211001.001/7641976:user/release-keys")

\* the property text of end-to-end scenario A
ScenarioA ==
    Str("ro.build.fingerprint=") \o FpSunfish \o Str("\n")
        \o Str("ro.product.manufacturer=Google\n")
        \o Str("ro.product.model=Pixel 4a\n")
        \o Str("ro.product.device=sunfish\n")
        \o Str("ro.build.version.sdk=30\n")

\* scenario A with a build id, and with an SDK level below the minimum
DocSunfish == ScenarioA \o Str("ro.build.id=RQ3A.211001.001\n")
DocLowSdk == Str("# old device\nro.build.fingerprint=a/b/c\nro.build.id=X\n")
                 \o Str("ro.product.device=b\nro.build.version.sdk = 20\n")
DocRedfin == Str("ro.system.build.fingerprint=google/redfin/redfin:16/BP3A.251005.004.B3/1:user/release-keys\n")
                 \o Str("ro.system.build.id=BP3A.251005.004.B3\nro.product.system.device=redfin\n")
                 \o Str("ro.product.system.name=redfin\n")
                 \o Str("ro.product.first_api_level=30\nro.product.first_api_level=29\n")

DocBadPatch == DocSunfish \o Str("ro.vendor.build.security_patch=2021-10\n")
DocNoDevice == Str("ro.build.fingerprint=a/b/c\nro.build.id=X\nro.build.version.sdk=33\n")

Documents == {ScenarioA, DocSunfish, DocLowSdk, DocRedfin, DocBadPatch, DocNoDevice}

TextAlphabet == {"a", "=", "#", " ", "\n"}
Texts == UNION {[1..k -> TextAlphabet] : k \in 0..MaxTextLen}

\* what the download of an asset's url yields
ArchiveAt ==
    [u1 |-> [status |-> "ok", text |-> DocSunfish],
     u2 |-> [status |-> "http_error", text |-> << >>],
     u3 |-> [status |-> "no_system_prop", text |-> << >>],
     u4 |-> [status |-> "ok", text |-> ScenarioA],
     u5 |-> [status |-> "ok", text |-> DocLowSdk],
     u6 |-> [status |-> "ok", text |-> DocRedfin],
     u7 |-> [status |-> "ok", text |-> DocBadPatch],
     u8 |-> [status |-> "ok", text |-> DocNoDevice]]

Catalogue ==
    {[name |-> Str("sunfish.zip"), url |-> "u1"],
     [name |-> Str("gone.zip"), url |-> "u2"],
     [name |-> Str("empty.zip"), url |-> "u3"],
     [name |-> Str("noid.zip"), url |-> "u4"],
     [name |-> Str("old.zip"), url |-> "u5"],
     [name |-> Str("redfin.zip.v2.zip"), url |-> "u6"],
     [name |-> Str("patch.zip"), url |-> "u7"],
     [name |-> Str("bare.zip"), url |-> "u8"]}

AssetLists == UNION {[1..k -> Catalogue] : k \in 0..MaxAssets}

-----------------------------------------------------------------------------
(* Actions *)

NoCall ==
    /\ content = << >> /\ lines = << >> /\ ln = 1
    /\ props = EmptyDict /\ pif = NoPif /\ error = NoError

NoBatch ==
    /\ assets = << >> /\ idx = 0 /\ generated = << >> /\ failed = << >>
    /\ files = EmptyDict /\ listing = NoListing

batch_vars == <<assets, idx, generated, failed, files, listing>>
self_vars == <<output_format, repo_type>>

\* parse_system_prop: one pass of the loop over content.splitlines()
ParseLine ==
    /\ pc = "parse"
    /\ ln <= Len(lines)
    /\ props' = parse_line(props, lines[ln])
    /\ ln' = ln + 1
    /\ UNCHANGED <<self_vars, pc, content, lines, pif, error, batch_vars>>

\* the parser returns props; build_pif(props) returns the profile or raises
BuildPif ==
    /\ pc = "parse"
    /\ ln > Len(lines)
    /\ LET r == build_pif(output_format, props) IN
        /\ pif' = r.pif
        /\ error' = r.error
        /\ pc' = IF r.error = NoError THEN "built" ELSE "raised"
    /\ UNCHANGED <<self_vars, content, lines, ln, props, batch_vars>>

\* validate_pif(pif) called on a profile
ValidatePif ==
    /\ pc = "validate"
    /\ error' = validate_pif(output_format, pif)
    /\ pc' = IF validate_pif(output_format, pif) = NoError THEN "valid" ELSE "invalid"
    /\ UNCHANGED <<self_vars, content, lines, ln, props, pif, batch_vars>>

\* main: the for loop takes the next asset and calls generate
NextAsset ==
    /\ pc = "loop"
    /\ idx < Len(assets)
    /\ idx' = idx + 1
    /\ pc' = "download"
    /\ content' = << >> /\ lines' = << >> /\ ln' = 1
    /\ props' = EmptyDict /\ pif' = NoPif /\ error' = NoError
    /\ UNCHANGED <<self_vars, assets, generated, failed, files, listing>>

\* generate: download_and_extract(url), then the parser splits the content
Download ==
    /\ pc = "download"
    /\ LET a == ArchiveAt[assets[idx].url] IN
        IF a.status = "ok"
        THEN /\ content' = a.text
             /\ lines' = splitlines(a.text)
             /\ pc' = "parse"
             /\ error' = error
        ELSE /\ error' = IF a.status = "http_error" THEN ErrHttp ELSE ErrNoProp
             /\ pc' = "raised"
             /\ UNCHANGED <<content, lines>>
    /\ UNCHANGED <<self_vars, ln, props, pif, batch_vars>>

\* generate: write the profile to the output file and return the file name
Save ==
    /\ pc = "built"
    /\ files' = put(files, output_filename(repo_type, assets[idx].name), pif)
    /\ pc' = "saved"
    /\ UNCHANGED <<self_vars, content, lines, ln, props, pif, error,
                   assets, idx, generated, failed, listing>>

\* main: generated.append(filename), then the file is opened and read back
Record ==
    /\ pc = "saved"
    /\ LET filename == output_filename(repo_type, assets[idx].name) IN
        /\ generated' = Append(generated, filename)
        /\ IF filename \in DOMAIN files
           THEN UNCHANGED <<failed, error>>
           ELSE /\ failed' = Append(failed, assets[idx].name)
                /\ error' = ErrNoFile
    /\ pc' = "loop"
    /\ UNCHANGED <<self_vars, content, lines, ln, props, pif, assets, idx, files, listing>>

\* Except with the exception left to end the loop
Except_aborts ==
    /\ pc = "raised"
    /\ failed' = Append(failed, assets[idx].name)
    /\ idx' = Len(assets)
    /\ pc' = "loop"
    /\ UNCHANGED <<self_vars, content, lines, ln, props, pif, error,
                   assets, generated, files, listing>>

\* generate re-raises; main's except clause records the asset's name
Except ==
    /\ pc = "raised"
    /\ failed' = Append(failed, assets[idx].name)
    /\ pc' = "loop"
    /\ UNCHANGED <<self_vars, content, lines, ln, props, pif, error,
                   assets, idx, generated, files, listing>>

\* main: after the last asset, the summary; generated_files.txt or exit status 1
Summary ==
    /\ pc = "loop"
    /\ idx = Len(assets)
    /\ IF Len(generated) > 0
       THEN /\ listing' = [written |-> TRUE, text |-> join(generated, Str("\n"))]
            /\ pc' = "done"
       ELSE /\ listing' = listing
            /\ pc' = "exit_1"
    /\ UNCHANGED <<self_vars, content, lines, ln, props, pif, error,
                   assets, idx, generated, failed, files>>

-----------------------------------------------------------------------------
(* The batch driver: main() of generate_all_pifs.py *)

Init ==
    /\ output_format = "new"
    /\ repo_type \in {"stable", "experimental"}
    /\ assets \in AssetLists
    /\ idx = 0 /\ generated = << >> /\ failed = << >>
    /\ files = EmptyDict /\ listing = NoListing
    /\ pc = "loop"
    /\ NoCall

Next ==
    \/ NextAsset
    \/ Download
    \/ ParseLine
    \/ BuildPif
    \/ Save
    \/ Record
    \/ Except
    \/ Summary

Spec == Init /\ [][Next]_vars

\* main is a sequential program: it takes its next step whenever it has one
FairSpec == Spec /\ WF_vars(Next)

-----------------------------------------------------------------------------
(* One document: parse_system_prop line by line, then build_pif *)

InitParse ==
    /\ output_format \in {"legacy", "new"}
    /\ repo_type = "stable"
    /\ content \in Texts \cup Documents
    /\ lines = splitlines(content)
    /\ ln = 1 /\ props = EmptyDict /\ pif = NoPif /\ error = NoError
    /\ pc = "parse"
    /\ NoBatch

NextParse ==
    \/ ParseLine
    \/ BuildPif

SpecParse == InitParse /\ [][NextParse]_vars

-----------------------------------------------------------------------------
(* Property maps given to build_pif: a parsed baseline document in which the   *)
(* candidate keys of one field are replaced by every choice of at most         *)
(* MaxPresent present keys, each empty or holding one of the field's values.   *)

BaselineText ==
    Str("ro.build.fingerprint=") \o FpSunfish \o Str("\n")
        \o Str("ro.build.id=BP3A.251005.004.B3\n")
        \o Str("ro.product.name=sunfish\nro.product.device=sunfish\n")
        \o Str("ro.product.brand=google\nro.product.manufacturer=Google\n")
        \o Str("ro.product.model=Pixel 4a\nro.build.version.sdk=30\n")
        \o Str("ro.build.type=user\nro.build.tags=release-keys\n")
        \o Str("ro.build.version.release=11\n")
        \o Str("ro.build.version.security_patch=2021-10-01\n")

Baseline == parse_system_prop(BaselineText)

Range(s) == {s[i] : i \in DOMAIN s}
Override(d, a) == [k \in (DOMAIN d) \cup (DOMAIN a) |-> IF k \in DOMAIN a THEN a[k] ELSE d[k]]
Remove(d, ks) == [k \in (DOMAIN d) \ ks |-> d[k]]

FieldGroups ==
    {[keys |-> Range(LegacyFingerprintKeys) \cup Range(NewFingerprintKeys),
      vals |-> {FpSunfish, Str("google/redfin/redfin:16/bp3a/1:user/release-keys")}],
     [keys |-> Range(NewBuildIdKeys),
      vals |-> {Str("BP3A.251005.004.B3"), Str("RQ3A")}],
     [keys |-> Range(LegacyProductKeys) \cup Range(NewProductKeys),
      vals |-> {Str("sunfish"), Str("redfin")}],
     [keys |-> Range(LegacyDeviceKeys) \cup Range(NewDeviceKeys),
      vals |-> {Str("sunfish"), Str("redfin")}],
     [keys |-> Range(NewBrandKeys), vals |-> {Str("google"), Str("Acme")}],
     [keys |-> Range(NewManufacturerKeys), vals |-> {Str("Google"), Str("Acme Inc")}],
     [keys |-> Range(NewModelKeys), vals |-> {Str("Pixel 4a"), Str("Pixel 5")}],
     [keys |-> Range(LegacySdkKeys) \cup Range(NewSdkKeys),
      vals |-> {Str("30"), Str("21"), Str("20"), Str("030"), Str("3x")}],
     [keys |-> Range(NewTypeKeys), vals |-> {Str("user"), Str("userdebug")}],
     [keys |-> Range(NewTagsKeys), vals |-> {Str("release-keys"), Str("test-keys")}],
     [keys |-> Range(NewReleaseKeys), vals |-> {Str("11"), Str("16")}],
     [keys |-> Range(PatchKeys), vals |-> {Str("2021-10-01"), Str("2021-10")}]}

GroupMaps(g) ==
    {Override(Remove(Baseline, g.keys), a) :
        a \in UNION {[S -> g.vals \cup {<< >>}] :
                        S \in {T \in SUBSET g.keys : Cardinality(T) <= MaxPresent}}}

SdkGroup == CHOOSE g \in FieldGroups : Str("ro.build.version.sdk") \in g.keys

\* build ids and fingerprints with and without a date token, for the patch derivation
BuildIdVals ==
    {Str("BP3A.251005.004.B3"), Str("RQ3A"), Str("A.1234567.251005.B"),
     Str(".111111.222222."), Str("X.251005"), Str("B.25100a.1")}
FingerprintVals ==
    {FpSunfish,
     Str("g/r/r:16/bp3a.251005.004/1:user/release-keys"),
     Str("g/r/r:16/BP3A.251005.004"),
     Str("g/B.1234567.x/Q1.240305.y/k"),
     Str("g/.251005.004/BP3A.251005./k")}

PatchMaps ==
    {Override(Remove(Baseline, Range(PatchKeys)),
              Override(a, (Str("ro.build.id") :> id) @@ (Str("ro.build.fingerprint") :> fp))) :
        a \in UNION {[S -> {<< >>, Str("2021-10-01")}] : S \in SUBSET Range(PatchKeys)},
        id \in BuildIdVals, fp \in FingerprintVals}

InitProps(maps) ==
    /\ output_format \in {"legacy", "new"}
    /\ repo_type = "stable"
    /\ props \in maps
    /\ content = << >> /\ lines = << >> /\ ln = 1 /\ pif = NoPif /\ error = NoError
    /\ pc = "parse"
    /\ NoBatch

InitBuild == InitProps((UNION {GroupMaps(g) : g \in FieldGroups}) \cup PatchMaps)

SpecBuild == InitBuild /\ [][BuildPif]_vars

-----------------------------------------------------------------------------
(* Profiles given to validate_pif: a built profile in which at most MaxEdits   *)
(* fields are removed or replaced.                                             *)

Missing == <<"<missing>">>
RequiredNames == {"MANUFACTURER", "MODEL", "FINGERPRINT", "BRAND", "PRODUCT", "DEVICE", "ID"}
SdkNames == {"FIRST_API_LEVEL", "DEVICE_INITIAL_SDK_INT"}
EditFields == RequiredNames \cup SdkNames \cup {"SECURITY_PATCH"}

SdkTexts ==
    {<< >>, Str("20"), Str("21"), Str("22"), Str("0"), Str("-21"), Str("+21"), Str(" 21 "),
     Str("2_1"), Str("021"), Str("21.0"), Str("3x"), Str("100")}
PatchTexts ==
    {<< >>, Str("2021-10-01"), Str("2021-10"), Str("2021-10-011"), Str("not-a-date"), Str(" ")}

EditOptions(f) ==
    {Missing} \cup
        (IF f \in SdkNames THEN SdkTexts
         ELSE IF f = "SECURITY_PATCH" THEN PatchTexts
         ELSE {<< >>, Str(" "), Str("x")})

Edited(base, a) ==
    [f \in ((DOMAIN base) \cup (DOMAIN a)) \ {g \in DOMAIN a : a[g] = Missing} |->
        IF f \in DOMAIN a THEN a[f] ELSE base[f]]

Profiles(fmt) ==
    {Edited(build_pif(fmt, Baseline).pif, a) :
        a \in {b \in UNION {[S -> UNION {EditOptions(f) : f \in EditFields}] :
                              S \in {T \in SUBSET EditFields : Cardinality(T) <= MaxEdits}} :
                 \A f \in DOMAIN b : b[f] \in EditOptions(f)}}

InitValidate ==
    \/ /\ output_format \in {"legacy", "new"}
       /\ repo_type = "stable"
       /\ pif \in Profiles(output_format)
       /\ content = << >> /\ lines = << >> /\ ln = 1 /\ props = EmptyDict /\ error = NoError
       /\ pc = "validate"
       /\ NoBatch
    \/ InitProps(GroupMaps(SdkGroup))

NextValidate ==
    \/ ValidatePif
    \/ BuildPif

SpecValidate == InitValidate /\ [][NextValidate]_vars

-----------------------------------------------------------------------------
(* Claims about the parser and one document (SpecParse) *)

\* what a line contributes, read off the text of the claim
Qualifies(raw) ==
    LET l == strip(raw) IN
    (\E i \in 1..Len(l) : l[i] = "=") /\ ~(Len(l) > 0 /\ l[1] = "#")
FirstEq(l) == CHOOSE i \in 1..Len(l) : l[i] = "=" /\ \A j \in 1..(i - 1) : l[j] # "="
KeyOf(raw) == LET l == strip(raw) IN strip(SubSeq(l, 1, FirstEq(l) - 1))
ValOf(raw) == LET l == strip(raw) IN strip(SubSeq(l, FirstEq(l) + 1, Len(l)))

\* the map the first n lines of ls stand for: each key with the value of its last line
LastWins(ls, n) ==
    LET Q == {i \in 1..n : Qualifies(ls[i])}
        last(k) == CHOOSE i \in Q : KeyOf(ls[i]) = k /\ \A j \in Q : KeyOf(ls[j]) = k => j <= i
    IN  [k \in {KeyOf(ls[i]) : i \in Q} |-> ValOf(ls[last(k)])]

\* C10: parse_system_prop never fails and, line by line in input order, holds
\* exactly the map of the lines read so far: blank lines, lines whose trimmed form
\* starts with '#' and lines without '=' contribute nothing, every other line is
\* split at its first '=' into a trimmed key and a trimmed value, and a key that
\* occurs on several lines holds the value of the last of them.
C10_ParseLastWins ==
    /\ ln \in 1..(Len(lines) + 1)
    /\ props = LastWins(lines, ln - 1)
    /\ (pc = "parse" => error = NoError)
    /\ (pc # "parse" => ln = Len(lines) + 1)

\* C10 witness: the parser has read a whole text in which one key occurs on two
\* lines with different values, the later of them containing a second '='
C10_Witness ==
    /\ pc # "parse"
    /\ \E i, j \in 1..Len(lines) :
        /\ i < j /\ Qualifies(lines[i]) /\ Qualifies(lines[j])
        /\ KeyOf(lines[i]) = KeyOf(lines[j])
        /\ ValOf(lines[i]) # ValOf(lines[j])
        /\ "=" \in Range(ValOf(lines[j]))
        /\ props[KeyOf(lines[j])] = ValOf(lines[j])

ScenarioAProfile(product) ==
    [MANUFACTURER |-> Str("Google"),
     MODEL |-> Str("Pixel 4a"),
     FINGERPRINT |-> FpSunfish,
     BRAND |-> Str("google"),
     PRODUCT |-> product,
     DEVICE |-> Str("sunfish"),
     SECURITY_PATCH |-> << >>,
     FIRST_API_LEVEL |-> Str("30")]

ScenarioADone ==
    content = ScenarioA /\ output_format = "legacy" /\ pc \in {"built", "raised"}

\* C4 as stated: scenario A under Legacy yields PRODUCT "" (refuted)
C4_Original ==
    ScenarioADone => (error = NoError /\ pif = ScenarioAProfile(<< >>))

\* C4: parsing and building scenario A under Legacy succeeds and yields exactly
\* MANUFACTURER "Google", MODEL "Pixel 4a", the given FINGERPRINT, BRAND "google",
\* PRODUCT "sunfish" (from ro.product.device), DEVICE "sunfish", SECURITY_PATCH ""
\* and FIRST_API_LEVEL "30".
C4_ScenarioA ==
    ScenarioADone => (pc = "built" /\ error = NoError /\ pif = ScenarioAProfile(Str("sunfish")))

\* C4 witness: scenario A was parsed and built under Legacy
C4_Witness == ScenarioADone /\ pc = "built" /\ Len(lines) = 5

-----------------------------------------------------------------------------
(* Claims about build_pif (SpecBuild) *)

\* the documented candidate order of each derived field, per schema
DocumentedLegacy ==
    [FINGERPRINT |->
        <<Str("ro.build.fingerprint"),
          Str("ro.product.build.fingerprint"),
          Str("ro.bootimage.build.fingerprint"),
          Str("ro.vendor.build.fingerprint"),
          Str("ro.system.build.fingerprint")>>,
     PRODUCT |->
        <<Str("ro.build.product"),
          Str("ro.product.device"),
          Str("ro.product.name"),
          Str("ro.product.board")>>,
     DEVICE |->
        <<Str("ro.product.device"),
          Str("ro.build.product"),
          Str("ro.product.board")>>,
     BRAND |->
        <<Str("ro.product.brand")>>,
     MANUFACTURER |->
        <<Str("ro.product.manufacturer")>>,
     MODEL |->
        <<Str("ro.product.model")>>,
     FIRST_API_LEVEL |->
        <<Str("ro.product.first_api_level"),
          Str("ro.board.first_api_level"),
          Str("ro.board.api_level"),
          Str("ro.build.version.sdk"),
          Str("ro.system.build.version.sdk")>>,
     SECURITY_PATCH |->
        <<Str("ro.build.version.security_patch"),
          Str("ro.vendor.build.security_patch")>>]

DocumentedNew ==
    [FINGERPRINT |->
        <<Str("ro.system_ext.build.fingerprint"),
          Str("ro.system.build.fingerprint"),
          Str("ro.build.fingerprint"),
          Str("ro.product.build.fingerprint"),
          Str("ro.bootimage.build.fingerprint"),
          Str("ro.vendor.build.fingerprint"),
          Str("ro.system_dlkm.build.fingerprint")>>,
     ID |->
        <<Str("ro.system_ext.build.id"),
          Str("ro.system.build.id"),
          Str("ro.build.id"),
          Str("ro.vendor.build.id"),
          Str("ro.system_dlkm.build.id")>>,
     PRODUCT |->
        <<Str("ro.product.system_ext.name"),
          Str("ro.product.system.name"),
          Str("ro.product.name"),
          Str("ro.build.product"),
          Str("ro.product.system_ext.device"),
          Str("ro.product.device"),
          Str("ro.product.board")>>,
     DEVICE |->
        <<Str("ro.product.system_ext.device"),
          Str("ro.product.system.device"),
          Str("ro.product.device"),
          Str("ro.build.product"),
          Str("ro.product.board")>>,
     BRAND |->
        <<Str("ro.product.system_ext.brand"),
          Str("ro.product.system.brand"),
          Str("ro.product.brand")>>,
     MANUFACTURER |->
        <<Str("ro.product.system_ext.manufacturer"),
          Str("ro.product.system.manufacturer"),
          Str("ro.product.manufacturer")>>,
     MODEL |->
        <<Str("ro.product.system_ext.model"),
          Str("ro.product.system.model"),
          Str("ro.product.model")>>,
     DEVICE_INITIAL_SDK_INT |->
        <<Str("ro.product.first_api_level"),
          Str("ro.board.first_api_level"),
          Str("ro.board.api_level"),
          Str("ro.system_ext.build.version.sdk"),
          Str("ro.system.build.version.sdk"),
          Str("ro.build.version.sdk")>>,
     TYPE |->
        <<Str("ro.system_ext.build.type"),
          Str("ro.system.build.type"),
          Str("ro.build.type")>>,
     TAG |->
        <<Str("ro.system_ext.build.tags"),
          Str("ro.system.build.tags"),
          Str("ro.build.tags")>>,
     RELEASE |->
        <<Str("ro.system_ext.build.version.release"),
          Str("ro.system.build.version.release"),
          Str("ro.build.version.release"),
          Str("ro.build.version.release_or_codename")>>,
     SECURITY_PATCH |->
        <<Str("ro.build.version.security_patch"),
          Str("ro.vendor.build.security_patch")>>]

Documented(fmt) == IF fmt = "legacy" THEN DocumentedLegacy ELSE DocumentedNew

NonEmptyAt(d, keys) == {i \in 1..Len(keys) : keys[i] \in DOMAIN d /\ d[keys[i]] # << >>}
HasCandidate(d, keys) == NonEmptyAt(d, keys) # {}
\* the value of the first candidate present with a non-empty value
FirstCandidate(d, keys) ==
    d[keys[CHOOSE i \in NonEmptyAt(d, keys) : \A j \in NonEmptyAt(d, keys) : i <= j]]

BuildReturned == pc = "built"
BuildEnded == pc \in {"built", "raised"}

\* C1 as stated: every derived field holds the first non-empty candidate's value
\* itself, the SDK level included (refuted)
C1_Original ==
    BuildReturned =>
        \A f \in DOMAIN Documented(output_format) :
            HasCandidate(props, Documented(output_format)[f]) =>
                pif[f] = FirstCandidate(props, Documented(output_format)[f])

\* C1: for every property map, schema and derived field with a candidate present
\* and non-empty, the profile build_pif returns holds the value of the first such
\* candidate in the documented order; for FIRST_API_LEVEL and
\* DEVICE_INITIAL_SDK_INT it holds that value rendered as a canonical decimal
\* integer (str(int(value))).
C1_FirstCandidateWins ==
    BuildReturned =>
        \A f \in DOMAIN Documented(output_format) :
            HasCandidate(props, Documented(output_format)[f]) =>
                LET v == FirstCandidate(props, Documented(output_format)[f]) IN
                IF f \in SdkNames THEN int_ok(v) /\ pif[f] = str(int(v))
                ELSE pif[f] = v

\* C1 witness: an Extended build whose map holds different non-empty values under
\* ro.system_ext.build.fingerprint and ro.build.fingerprint returned the former
C1_Witness ==
    /\ BuildReturned
    /\ output_format = "new"
    /\ {Str("ro.system_ext.build.fingerprint"), Str("ro.build.fingerprint")} \subseteq DOMAIN props
    /\ props[Str("ro.system_ext.build.fingerprint")] # << >>
    /\ props[Str("ro.build.fingerprint")] # << >>
    /\ props[Str("ro.system_ext.build.fingerprint")] # props[Str("ro.build.fingerprint")]
    /\ pif.FINGERPRINT = props[Str("ro.system_ext.build.fingerprint")]

\* C2: build_pif fails and returns no profile when no fingerprint candidate of the
\* schema has a non-empty value, whatever else the map holds; and under Extended,
\* when a fingerprint is found but no build-id candidate has a non-empty value, it
\* fails for the build id.
C2_RequiredSourceMissing ==
    BuildEnded =>
        /\ ~HasCandidate(props, Documented(output_format).FINGERPRINT) =>
                (pc = "raised" /\ pif = NoPif /\ error = ErrFingerprint)
        /\ ( /\ output_format = "new"
             /\ HasCandidate(props, DocumentedNew.FINGERPRINT)
             /\ ~HasCandidate(props, DocumentedNew.ID) ) =>
                (pc = "raised" /\ pif = NoPif /\ error = ErrBuildId)

\* C2 witness: an Extended build of a map with a fingerprint, a device, an SDK
\* level and the rest, but no build id, has failed for the build id
C2_Witness ==
    /\ pc = "raised"
    /\ output_format = "new"
    /\ error = ErrBuildId
    /\ HasCandidate(props, DocumentedNew.FINGERPRINT)
    /\ HasCandidate(props, DocumentedNew.DEVICE)
    /\ ~HasCandidate(props, DocumentedNew.ID)

DefaultOf == [BRAND |-> Str("google"), MANUFACTURER |-> Str("Google"), MODEL |-> Str("Unknown")]

\* C3 as stated: under both schemas, when no candidate key of BRAND, MANUFACTURER
\* or MODEL has a non-empty value (absent, or present and empty), the profile holds
\* the field's literal default and the build does not fail because of that field.
C3_DefaultWhenEmpty ==
    BuildEnded =>
        \A f \in DOMAIN DefaultOf :
            ~HasCandidate(props, Documented(output_format)[f]) =>
                /\ pc = "built" => pif[f] = DefaultOf[f]
                /\ pc = "raised" => error # ErrEmpty(f)

\* the patch derivation, read off the text of the claim
TokenAt(s, p) ==
    /\ p >= 1 /\ p + 7 <= Len(s)
    /\ s[p] = "." /\ s[p + 7] = "."
    /\ \A j \in (p + 1)..(p + 6) : s[j] \in Digits
HasToken(s) == \E p \in 1..Len(s) : TokenAt(s, p)
FirstToken(s) == CHOOSE p \in 1..Len(s) : TokenAt(s, p) /\ \A q \in 1..(p - 1) : ~TokenAt(s, q)
DateAt(s, p) == Str("20") \o SubSeq(s, p + 1, p + 2) \o Str("-") \o SubSeq(s, p + 3, p + 4)
                    \o Str("-") \o SubSeq(s, p + 5, p + 6)
\* a segment /<A-Z0-9 run>.<6 digits>.<rest>/ that opens at i, its token at q
SegmentAt(s, i, q) ==
    /\ i >= 1 /\ i + 1 < q /\ s[i] = "/"
    /\ \A x \in (i + 1)..(q - 1) : s[x] \in UpperAlnum
    /\ TokenAt(s, q)
    /\ \E e \in (q + 9)..Len(s) : s[e] = "/" /\ \A x \in (q + 8)..(e - 1) : s[x] # "/"
HasSegment(s) == \E i, q \in 1..Len(s) : SegmentAt(s, i, q)
FirstSegmentToken(s) ==
    LET i == CHOOSE a \in 1..Len(s) :
                /\ \E q \in 1..Len(s) : SegmentAt(s, a, q)
                /\ \A b \in 1..(a - 1) : \A q \in 1..Len(s) : ~SegmentAt(s, b, q)
    IN  CHOOSE q \in 1..Len(s) : SegmentAt(s, i, q)
DerivedPatch(build_id, fingerprint) ==
    IF HasToken(build_id) THEN DateAt(build_id, FirstToken(build_id))
    ELSE IF HasSegment(fingerprint) THEN DateAt(fingerprint, FirstSegmentToken(fingerprint))
    ELSE << >>

\* C8: SECURITY_PATCH is derived exactly when the schema is Extended and neither
\* ro.build.version.security_patch nor ro.vendor.build.security_patch has a
\* non-empty value: it is then 20YY-MM-DD from the first .YYMMDD. token of the
\* build id, else from the token of the first fingerprint segment
\* /<A-Z0-9 run>.<6 digits>.<rest>/, else empty. Otherwise it is the first
\* non-empty of the two properties, or empty under Legacy when there is none.
C8_PatchDerivation ==
    BuildReturned =>
        IF HasCandidate(props, Documented(output_format).SECURITY_PATCH)
        THEN pif.SECURITY_PATCH = FirstCandidate(props, Documented(output_format).SECURITY_PATCH)
        ELSE IF output_format = "new"
             THEN pif.SECURITY_PATCH =
                    DerivedPatch(FirstCandidate(props, DocumentedNew.ID),
                                 FirstCandidate(props, DocumentedNew.FINGERPRINT))
             ELSE pif.SECURITY_PATCH = << >>

\* C8 witness: an Extended build with no security-patch property, build id
\* BP3A.251005.004.B3 and a fingerprint that carries another date returned
\* SECURITY_PATCH 2025-10-05
C8_Witness ==
    /\ BuildReturned
    /\ output_format = "new"
    /\ ~HasCandidate(props, DocumentedNew.SECURITY_PATCH)
    /\ pif.ID = Str("BP3A.251005.004.B3")
    /\ pif.FINGERPRINT = FpSunfish
    /\ pif.SECURITY_PATCH = Str("2025-10-05")

-----------------------------------------------------------------------------
(* Claims about validate_pif (SpecValidate) *)

Validated == pc \in {"valid", "invalid"}

\* C7: for every SDK-level value a profile carries, validation fails when the value
\* is not an integer or is an integer below 21, and the SDK rule passes when it is
\* an integer >= 21; and a build whose map has no non-empty SDK candidate (so the
\* level defaults to "0") fails.
C7_SdkLevelRule ==
    /\ Validated =>
        \A f \in SdkNames \cap DOMAIN pif :
            IF int_ok(pif[f]) /\ int(pif[f]) >= 21
            THEN error # ErrInteger(f)
            ELSE pc = "invalid"
    /\ (BuildEnded /\ ~HasCandidate(props, Documented(output_format)[
                            IF output_format = "legacy" THEN "FIRST_API_LEVEL"
                            ELSE "DEVICE_INITIAL_SDK_INT"]))
            => (pc = "raised" /\ pif = NoPif)

\* C7 witness: a profile whose only SDK level is "21" was validated and found valid
C7_Witness ==
    /\ pc = "valid"
    /\ output_format = "legacy"
    /\ "FIRST_API_LEVEL" \in DOMAIN pif
    /\ pif.FIRST_API_LEVEL = Str("21")
    /\ "DEVICE_INITIAL_SDK_INT" \notin DOMAIN pif

\* C9: validation fails when SECURITY_PATCH is non-empty and its length is not 10;
\* the rule passes when SECURITY_PATCH is empty or has exactly 10 characters,
\* whatever they are.
C9_PatchLengthRule ==
    Validated =>
        LET sp == IF "SECURITY_PATCH" \in DOMAIN pif THEN pif.SECURITY_PATCH ELSE << >> IN
        IF Len(sp) = 0 \/ Len(sp) = 10
        THEN error # ErrPatch
        ELSE pc = "invalid"

\* C9 witness: a profile whose SECURITY_PATCH is ten characters that are no date
\* was validated and found valid
C9_Witness ==
    /\ pc = "valid"
    /\ "SECURITY_PATCH" \in DOMAIN pif
    /\ pif.SECURITY_PATCH = Str("not-a-date")

\* the rules in the order the claim gives them, each named by the field it is about
RuleOrder(fmt) ==
    <<"MANUFACTURER", "MODEL", "FINGERPRINT", "BRAND", "PRODUCT", "DEVICE">>
        \o (IF fmt = "new" THEN <<"ID">> ELSE << >>)
        \o <<"FIRST_API_LEVEL", "DEVICE_INITIAL_SDK_INT", "SECURITY_PATCH">>

\* whether profile p violates the rule about field f
RuleViolated(p, f) ==
    IF f \in SdkNames THEN f \in DOMAIN p /\ ~(int_ok(p[f]) /\ int(p[f]) >= 21)
    ELSE IF f = "SECURITY_PATCH" THEN f \in DOMAIN p /\ Len(p[f]) \notin {0, 10}
    ELSE f \notin DOMAIN p \/ \A i \in 1..Len(p[f]) : p[f][i] \in Whitespace

RuleMessage(f) ==
    IF f \in SdkNames THEN ErrInteger(f)
    ELSE IF f = "SECURITY_PATCH" THEN ErrPatch
    ELSE ErrEmpty(f)

ViolatedRules(fmt, p) == {i \in 1..Len(RuleOrder(fmt)) : RuleViolated(p, RuleOrder(fmt)[i])}

\* C11: validate_pif reports only the first failure in the fixed order of the
\* rules (required fields MANUFACTURER, MODEL, FINGERPRINT, BRAND, PRODUCT, DEVICE,
\* then ID under Extended, then FIRST_API_LEVEL, then DEVICE_INITIAL_SDK_INT, then
\* the SECURITY_PATCH length): the error of a profile that violates several rules
\* is the message of the earliest violated one, a profile that violates none is
\* valid, and validation leaves the profile as it was.
C11_FirstFailureReported ==
    /\ [](Validated =>
            LET V == ViolatedRules(output_format, pif) IN
            IF V = {} THEN pc = "valid" /\ error = NoError
            ELSE /\ pc = "invalid"
                 /\ error = RuleMessage(RuleOrder(output_format)[
                                CHOOSE i \in V : \A j \in V : i <= j]))
    /\ [][pc = "validate" => pif' = pif]_vars

\* C11 witness: a profile that violates both the DEVICE_INITIAL_SDK_INT rule and
\* the SECURITY_PATCH rule was validated, and the error is the SDK rule's message
C11_Witness ==
    /\ pc = "invalid"
    /\ RuleViolated(pif, "DEVICE_INITIAL_SDK_INT")
    /\ RuleViolated(pif, "SECURITY_PATCH")
    /\ error = ErrInteger("DEVICE_INITIAL_SDK_INT")

-----------------------------------------------------------------------------
(* Claims about generate and the batch driver (Spec, FairSpec) *)

RequiredFor(fmt) ==
    {"MANUFACTURER", "MODEL", "FINGERPRINT", "BRAND", "PRODUCT", "DEVICE"}
        \cup (IF fmt = "new" THEN {"ID"} ELSE {})

\* the validation rules, read off the text of the claim
RulesHold(fmt, p) ==
    /\ \A f \in RequiredFor(fmt) :
        f \in DOMAIN p /\ \E i \in 1..Len(p[f]) : p[f][i] \notin Whitespace
    /\ \A f \in SdkNames \cap DOMAIN p : int_ok(p[f]) /\ int(p[f]) >= 21
    /\ "SECURITY_PATCH" \in DOMAIN p => Len(p.SECURITY_PATCH) \in {0, 10}

\* C5: a profile exists only after it passed validation, a call that raised holds
\* no profile, and the output directory changes only by generate writing the
\* validated profile build_pif returned under the asset's file name.
C5_OnlyValidatedExposed ==
    /\ [](DOMAIN pif # {} => RulesHold(output_format, pif))
    /\ [](pc = "raised" => DOMAIN pif = {})
    /\ [](\A f \in DOMAIN files : RulesHold(output_format, files[f]))
    /\ [][files' # files =>
            /\ pc = "built"
            /\ DOMAIN pif # {}
            /\ files' = put(files, output_filename(repo_type, assets[idx].name), pif)]_vars

\* C5 witness: after an asset whose document failed, for which nothing was
\* written, generate has written the profile of the next asset
C5_Witness ==
    /\ pc = "saved"
    /\ idx = 2
    /\ failed = <<assets[1].name>>
    /\ DOMAIN files = {output_filename(repo_type, assets[2].name)}
    /\ files[output_filename(repo_type, assets[2].name)] = pif

\* whether generate raises for an asset: the download, the archive, the derivation
\* or the validation fails
Fails(a) ==
    \/ ArchiveAt[a.url].status # "ok"
    \/ build_pif(output_format, parse_system_prop(ArchiveAt[a.url].text)).error # NoError
Succeeds(a) == ~Fails(a)

ExpectedFailed(n) ==
    LET s == SelectSeq(SubSeq(assets, 1, n), Fails) IN [i \in 1..Len(s) |-> s[i].name]
ExpectedGenerated(n) ==
    LET s == SelectSeq(SubSeq(assets, 1, n), Succeeds)
    IN  [i \in 1..Len(s) |-> output_filename(repo_type, s[i].name)]

BatchEnded == pc \in {"done", "exit_1"}

\* C6: the assets are taken one at a time in list order, each one's generate call
\* being started once; between assets and at the end, failed holds the names of
\* the failing assets taken so far and generated the file names of the succeeding
\* ones, in order; the summary is reached only after the last asset, and it is
\* always reached.
C6_BatchNeverAborts ==
    /\ [][idx' # idx => (idx' = idx + 1 /\ pc' = "download")]_vars
    /\ [][pc' = "download" => (pc = "loop" /\ idx' = idx + 1)]_vars
    /\ []((pc = "loop" \/ BatchEnded) =>
            (failed = ExpectedFailed(idx) /\ generated = ExpectedGenerated(idx)))
    /\ [](BatchEnded => idx = Len(assets))
    /\ <>BatchEnded

\* C6 witness: a batch of two assets whose first failed has ended with the second
\* generated
C6_Witness ==
    /\ pc = "done"
    /\ Len(assets) = 2
    /\ failed = <<assets[1].name>>
    /\ generated = <<output_filename(repo_type, assets[2].name)>>

\* the input name with its '.zip' suffix removed and otherwise unchanged
WithoutZipSuffix(name) ==
    IF Len(name) >= 4 /\ SubSeq(name, Len(name) - 3, Len(name)) = Str(".zip")
    THEN SubSeq(name, 1, Len(name) - 4)
    ELSE name

PersistedName(rt, name) ==
    (IF rt = "experimental" THEN Str("EXPERIMENTAL_") ELSE Str("Stable_PIF_"))
        \o WithoutZipSuffix(name) \o Str(".json")

\* the profile of an asset, computed without repo_type
ProfileOf(a) == build_pif("new", parse_system_prop(ArchiveAt[a.url].text)).pif

\* C12 as stated: the file generate persists for an asset is named prefix + the
\* asset's name with its '.zip' suffix removed and otherwise unchanged + '.json',
\* the prefix being 'EXPERIMENTAL_' for repo_type 'experimental' and 'Stable_PIF_'
\* otherwise, and the profile written is the same for both repo_type values.
C12_FileNaming ==
    pc = "saved" =>
        /\ PersistedName(repo_type, assets[idx].name) \in DOMAIN files
        /\ files[PersistedName(repo_type, assets[idx].name)] = ProfileOf(assets[idx])
        /\ DOMAIN files \subseteq {PersistedName(repo_type, assets[i].name) : i \in 1..idx}

=============================================================================
